---- MODULE Spec2Model ----
(***************************************************************************)
(* polars-json, ndjson::deserialize::deserialize_iter                       *)
(*                                                                         *)
(* Rows of NDJSON text are batched into a buffer framed as a JSON array    *)
(* literal, the buffer is decoded chunk by chunk, and the chunk arrays are *)
(* concatenated into the output array.                                     *)
(*                                                                         *)
(* Text is a sequence of one-byte characters. The alphabet is the digits   *)
(* "1" and "2", the structural characters "[" "]" "," and "x", a byte that *)
(* starts no JSON value.                                                   *)
(***************************************************************************)
EXTENDS Integers, Sequences, FiniteSets, TLC

VARIABLES rows, data_type, budget, pc, i, row, buf, arr, ret, result,
          ncalls, nconcat, chunk_start

vars == <<rows, data_type, budget, pc, i, row, buf, arr, ret, result,
          ncalls, nconcat, chunk_start>>

----------------------------------------------------------------------------
(* Bounds of the model *)

MaxRows == 3

MaxBudget == 6

----------------------------------------------------------------------------
(* The flush budget: (std::u32::MAX << 1) as usize.  Numbers of 32 bits    *)
(* and more are pairs <<hi, lo>> of 16-bit halves, value hi * 2^16 + lo.   *)

Half == 65536

U32_MAX == <<Half - 1, Half - 1>>

\* mutant: the shift is done after widening, no bit is lost
Shl1U32_Widened(x) ==
    LET lo2 == x[2] * 2
    IN  <<x[1] * 2 + (lo2 \div Half), lo2 % Half>>

\* x << 1 on a u32: the bit shifted out of the top half is lost
Shl1U32(x) ==
    LET lo2 == x[2] * 2
        hi2 == x[1] * 2 + (lo2 \div Half)
    IN  <<hi2 % Half, lo2 % Half>>

\* a length (usize) as a pair of halves; lengths of the model are < 2^31
Wide(n) == <<n \div Half, n % Half>>

WideGt(a, b) == a[1] > b[1] \/ (a[1] = b[1] /\ a[2] > b[2])

FlushBudget == Shl1U32(U32_MAX)

\* the budgets the model runs under: the small ones force flushes, the last
\* one is the budget of the code
Budgets == {Wide(b) : b \in 0..MaxBudget} \cup {FlushBudget}

----------------------------------------------------------------------------
(* Text *)

Str1 == <<"1">>
Str2 == <<"2">>
Str12 == <<"1", "2">>
StrList2 == <<"[", "2", "]">>
StrEmptyList == <<"[", "]">>
StrEmpty == <<>>
StrTwoValues == <<"1", ",", "2">>
StrNotJson == <<"x">>
StrTrailingComma == <<"1", ",">>

\* the rows an input may hold: JSON documents, and rows that are none
RowPool == {Str1, Str2, Str12, StrList2, StrEmptyList,
            StrEmpty, StrTwoValues, StrNotJson, StrTrailingComma}

Digits == {"1", "2"}

DigitVal(c) == IF c = "1" THEN 1 ELSE 2

\* String::pop: removes the last character
Pop(s) == IF Len(s) = 0 THEN s ELSE SubSeq(s, 1, Len(s) - 1)

----------------------------------------------------------------------------
(* simd_json::to_borrowed_value on the alphabet of the model: a JSON value *)
(* is a number (a run of digits) or an array "[" value ("," value)* "]";   *)
(* the whole text must be one value.                                       *)

JNum(n) == [k |-> "num", n |-> n, elems |-> <<>>]
JArr(es) == [k |-> "arr", n |-> 0, elems |-> es]
JNone == [k |-> "none", n |-> 0, elems |-> <<>>]

ParseFail == [ok |-> FALSE, val |-> JNone, pos |-> 0]
ParseOk(v, p) == [ok |-> TRUE, val |-> v, pos |-> p]

RECURSIVE ParseDigits(_, _, _)
ParseDigits(s, p, n) ==
    IF p <= Len(s) /\ s[p] \in Digits
    THEN ParseDigits(s, p + 1, n * 10 + DigitVal(s[p]))
    ELSE ParseOk(JNum(n), p)

RECURSIVE ParseValue(_, _)
RECURSIVE ParseElems(_, _, _)
ParseValue(s, p) ==
    IF p > Len(s) THEN ParseFail
    ELSE IF s[p] \in Digits THEN ParseDigits(s, p, 0)
    ELSE IF s[p] = "["
         THEN IF p + 1 <= Len(s) /\ s[p + 1] = "]"
              THEN ParseOk(JArr(<<>>), p + 2)
              ELSE ParseElems(s, p + 1, <<>>)
    ELSE ParseFail

ParseElems(s, p, acc) ==
    LET r == ParseValue(s, p) IN
    IF ~r.ok THEN ParseFail
    ELSE IF r.pos > Len(s) THEN ParseFail
    ELSE IF s[r.pos] = "," THEN ParseElems(s, r.pos + 1, Append(acc, r.val))
    ELSE IF s[r.pos] = "]" THEN ParseOk(JArr(Append(acc, r.val)), r.pos + 1)
    ELSE ParseFail

to_borrowed_value(s) ==
    LET r == ParseValue(s, 1) IN
    IF r.ok /\ r.pos = Len(s) + 1 THEN r ELSE ParseFail

----------------------------------------------------------------------------
(* Arrays and results *)

DataTypes == {"Int64", "List"}

Null == [k |-> "null", n |-> 0, elems |-> <<>>]

\* one JSON value decoded to the element of an Int64 array
DecodeInt64(v) == IF v.k = "num" THEN [k |-> "int", n |-> v.n, elems |-> <<>>] ELSE Null

\* one JSON value decoded to the element of an array of type dt
DecodeValue(v, dt) ==
    IF dt = "Int64" THEN DecodeInt64(v)
    ELSE IF v.k = "arr"
         THEN [k |-> "list", n |-> 0,
               elems |-> [j \in 1..Len(v.elems) |-> DecodeInt64(v.elems[j])]]
         ELSE Null

\* json::deserialize::_deserialize: one element per value
_deserialize(vals, dt) ==
    [dt |-> dt, vals |-> [j \in 1..Len(vals) |-> DecodeValue(vals[j], dt)]]

NoArray == [dt |-> "none", vals |-> <<>>]

Ok(a) == [ok |-> TRUE, val |-> a, err |-> "none"]
Err(m) == [ok |-> FALSE, val |-> NoArray, err |-> m]
Pending == Err("pending")

ParseError == "json parsing error"
MismatchError == "concatenate: types differ"
EmptyError == "concatenate: no arrays"

\* mutant: the type is taken from the first value of the chunk
_deserializer_Inferred(s, dt) ==
    LET out == to_borrowed_value(s) IN
    IF ~out.ok THEN Err(ParseError)
    ELSE Ok(_deserialize(out.val.elems,
                         IF out.val.elems # <<>> /\ out.val.elems[1].k = "arr"
                         THEN "List" ELSE "Int64"))

\* fn _deserializer(s, data_type)
_deserializer(s, dt) ==
    LET out == to_borrowed_value(s) IN
    IF ~out.ok THEN Err(ParseError)
    ELSE IF out.val.k = "arr" THEN Ok(_deserialize(out.val.elems, dt))
    ELSE Err("unreachable")

RECURSIVE Flatten(_)
Flatten(as) == IF as = <<>> THEN <<>> ELSE Head(as).vals \o Flatten(Tail(as))

\* arrow::compute::concatenate::concatenate
concatenate(as) ==
    IF as = <<>> THEN Err(EmptyError)
    ELSE IF \E j \in 1..Len(as) : as[j].dt # as[1].dt THEN Err(MismatchError)
    ELSE Ok([dt |-> as[1].dt, vals |-> Flatten(as)])

----------------------------------------------------------------------------
(* deserialize_iter                                                        *)
(*                                                                         *)
(* ncalls and nconcat count the calls of _deserializer and of concatenate; *)
(* chunk_start is the number of rows consumed when the buffer was last     *)
(* "[", so the buffer holds rows chunk_start+1 .. i.                       *)

\* mutant: the row length is not added to the buffer length
FlushPredicate_BufOnly(b, r, bud) == WideGt(Wide(Len(b)), bud)

\* mutant: >= for >
FlushPredicate_Ge(b, r, bud) == ~WideGt(bud, Wide(Len(b) + Len(r)))

\* line 40: buf.len() + row.len() > (std::u32::MAX << 1) as usize
FlushPredicate(b, r, bud) == WideGt(Wide(Len(b) + Len(r)), bud)

\* lines 37-38: buf.push_str(row); buf.push(',')
PushRow(b, r) == Append(b \o r, ",")

\* mutant: the separator comma is not popped
CloseChunk_NoPop(b) == Append(b, "]")

\* lines 41-42: let _ = buf.pop(); buf.push(']')
CloseChunk(b) == Append(Pop(b), "]")

\* mutant: the residual buffer is closed without the pop
CloseResidual_NoPop(b) == Append(b, "]")

\* mutant: the residual buffer is popped without the length test
CloseResidual_AlwaysPop(b) == Append(Pop(b), "]")

\* lines 48-51: if buf.len() > 1 { buf.pop() }; buf.push(']')
CloseResidual(b) == Append(IF Len(b) > 1 THEN Pop(b) ELSE b, "]")

\* lines 44-45: buf.clear(); buf.push('[')
FreshBuf == <<"[">>

RowSeqs == UNION {[1..n -> RowPool] : n \in 0..MaxRows}

Init ==
    /\ rows \in RowSeqs
    /\ data_type \in DataTypes
    /\ budget \in Budgets
    /\ pc = "loop"
    /\ i = 0
    /\ row = <<>>
    /\ buf = FreshBuf
    /\ arr = <<>>
    /\ ret = Pending
    /\ result = Pending
    /\ ncalls = 0
    /\ nconcat = 0
    /\ chunk_start = 0

\* lines 36-38: the iterator yields a row, which is appended with its comma
NextRow ==
    /\ pc = "loop"
    /\ i < Len(rows)
    /\ i' = i + 1
    /\ row' = rows[i + 1]
    /\ buf' = PushRow(buf, rows[i + 1])
    /\ pc' = "test"
    /\ UNCHANGED <<rows, data_type, budget, arr, ret, result, ncalls, nconcat,
                   chunk_start>>

\* line 40: the flush predicate
TestFlush ==
    /\ pc = "test"
    /\ pc' = IF FlushPredicate(buf, row, budget) THEN "close" ELSE "loop"
    /\ UNCHANGED <<rows, data_type, budget, i, row, buf, arr, ret, result,
                   ncalls, nconcat, chunk_start>>

\* lines 41-42: the chunk is closed
FlushClose ==
    /\ pc = "close"
    /\ buf' = CloseChunk(buf)
    /\ pc' = "decode"
    /\ UNCHANGED <<rows, data_type, budget, i, row, arr, ret, result,
                   ncalls, nconcat, chunk_start>>

\* mutant: the buffer is cleared as soon as the decoder has returned
FlushDecode_ClearsBuf ==
    /\ pc = "decode"
    /\ ret' = _deserializer(buf, data_type)
    /\ ncalls' = ncalls + 1
    /\ buf' = FreshBuf
    /\ IF ret'.ok
       THEN pc' = "push" /\ UNCHANGED result
       ELSE pc' = "done" /\ result' = ret'
    /\ UNCHANGED <<rows, data_type, budget, i, row, arr, nconcat, chunk_start>>

\* mutant: a chunk that fails to decode is skipped and the loop goes on
FlushDecode_SkipChunk ==
    /\ pc = "decode"
    /\ ret' = _deserializer(buf, data_type)
    /\ ncalls' = ncalls + 1
    /\ pc' = IF ret'.ok THEN "push" ELSE "reset"
    /\ UNCHANGED <<rows, data_type, budget, i, row, buf, arr, result, nconcat,
                   chunk_start>>

\* line 43: _deserializer(&mut buf, data_type.clone())?
FlushDecode ==
    /\ pc = "decode"
    /\ ret' = _deserializer(buf, data_type)
    /\ ncalls' = ncalls + 1
    /\ IF ret'.ok
       THEN pc' = "push" /\ UNCHANGED result
       ELSE pc' = "done" /\ result' = ret'
    /\ UNCHANGED <<rows, data_type, budget, i, row, buf, arr, nconcat,
                   chunk_start>>

\* mutant: the chunk replaces the list instead of being pushed onto it
FlushPush_Replace ==
    /\ pc = "push"
    /\ arr' = <<ret.val>>
    /\ pc' = "reset"
    /\ UNCHANGED <<rows, data_type, budget, i, row, buf, ret, result,
                   ncalls, nconcat, chunk_start>>

\* mutant: the chunk is put in front of the list
FlushPush_Front ==
    /\ pc = "push"
    /\ arr' = <<ret.val>> \o arr
    /\ pc' = "reset"
    /\ UNCHANGED <<rows, data_type, budget, i, row, buf, ret, result,
                   ncalls, nconcat, chunk_start>>

\* line 43: arr.push(..)
FlushPush ==
    /\ pc = "push"
    /\ arr' = Append(arr, ret.val)
    /\ pc' = "reset"
    /\ UNCHANGED <<rows, data_type, budget, i, row, buf, ret, result,
                   ncalls, nconcat, chunk_start>>

\* mutant: buf.clear() is left out
FlushReset_NoClear ==
    /\ pc = "reset"
    /\ buf' = Append(buf, "[")
    /\ chunk_start' = i
    /\ pc' = "loop"
    /\ UNCHANGED <<rows, data_type, budget, i, row, arr, ret, result,
                   ncalls, nconcat>>

\* mutant: the predicate is tested again after the flush (while for if)
FlushReset_Retest ==
    /\ pc = "reset"
    /\ buf' = FreshBuf
    /\ chunk_start' = i
    /\ pc' = "test"
    /\ UNCHANGED <<rows, data_type, budget, i, row, arr, ret, result,
                   ncalls, nconcat>>

\* lines 44-45: the buffer is reset for the next chunk
FlushReset ==
    /\ pc = "reset"
    /\ buf' = FreshBuf
    /\ chunk_start' = i
    /\ pc' = "loop"
    /\ UNCHANGED <<rows, data_type, budget, i, row, arr, ret, result,
                   ncalls, nconcat>>

\* lines 48-51: the iterator is exhausted, the residual buffer is closed
Finalize ==
    /\ pc = "loop"
    /\ i = Len(rows)
    /\ buf' = CloseResidual(buf)
    /\ pc' = "final"
    /\ UNCHANGED <<rows, data_type, budget, i, row, arr, ret, result,
                   ncalls, nconcat, chunk_start>>

\* mutant: the residual chunk is pushed and concatenated in every case
Assemble_AlwaysConcat ==
    /\ pc = "final"
    /\ ret' = _deserializer(buf, data_type)
    /\ ncalls' = ncalls + 1
    /\ IF ~ret'.ok
       THEN /\ result' = ret'
            /\ UNCHANGED <<arr, nconcat>>
       ELSE /\ arr' = Append(arr, ret'.val)
            /\ result' = concatenate(arr')
            /\ nconcat' = nconcat + 1
    /\ pc' = "done"
    /\ UNCHANGED <<rows, data_type, budget, i, row, buf, chunk_start>>

\* mutant: the residual chunk is returned, the flushed chunks are dropped
Assemble_ResidualOnly ==
    /\ pc = "final"
    /\ ret' = _deserializer(buf, data_type)
    /\ ncalls' = ncalls + 1
    /\ result' = ret'
    /\ pc' = "done"
    /\ UNCHANGED <<rows, data_type, budget, i, row, buf, arr, nconcat, chunk_start>>

\* lines 53-58: the residual chunk is decoded and the output assembled
Assemble ==
    /\ pc = "final"
    /\ ret' = _deserializer(buf, data_type)
    /\ ncalls' = ncalls + 1
    /\ IF arr = <<>>
       THEN /\ result' = ret'
            /\ UNCHANGED <<arr, nconcat>>
       ELSE IF ~ret'.ok
            THEN /\ result' = ret'
                 /\ UNCHANGED <<arr, nconcat>>
            ELSE /\ arr' = Append(arr, ret'.val)
                 /\ result' = concatenate(arr')
                 /\ nconcat' = nconcat + 1
    /\ pc' = "done"
    /\ UNCHANGED <<rows, data_type, budget, i, row, buf, chunk_start>>

Next ==
    \/ NextRow
    \/ TestFlush
    \/ FlushClose
    \/ FlushDecode
    \/ FlushPush
    \/ FlushReset
    \/ Finalize
    \/ Assemble

Spec == Init /\ [][Next]_vars

\* the call is sequential code: a step that can be taken is taken
FairSpec == Spec /\ WF_vars(Next)

----------------------------------------------------------------------------
(* Properties *)

\* a row that is by itself one JSON document
ValidRow(r) == to_borrowed_value(r).ok

AllValid == \A j \in 1..Len(rows) : ValidRow(rows[j])

Done == pc = "done"

\* the number of chunks flushed in the loop
Flushes == IF pc = "done" /\ nconcat = 1 THEN Len(arr) - 1 ELSE Len(arr)

\* C1: when every row is a valid JSON document and the call succeeds, the
\* returned array has as many elements as there are input rows, under every
\* budget (the small budgets flush on every row).
C1_LengthEqualsRowCount ==
    (Done /\ AllValid /\ result.ok) => Len(result.val.vals) = Len(rows)

\* C1 witness: a successful call on MaxRows valid rows that flushed on every
\* row.
C1_Witness ==
    /\ Done /\ AllValid /\ result.ok
    /\ Len(rows) = MaxRows
    /\ budget = Wide(0)
    /\ Flushes = MaxRows

\* C2: the call returns an error if and only if some row is not a valid JSON
\* document.
C2_ErrorIffInvalidRow ==
    Done => (~result.ok <=> ~AllValid)

\* C2, the half that the code keeps: valid rows never fail.
C2_ValidRowsSucceed ==
    (Done /\ AllValid) => result.ok

\* the result of the run that never flushes: every row is pushed, the
\* residual buffer is closed and decoded once
RECURSIVE PushAll(_, _)
PushAll(b, rs) == IF rs = <<>> THEN b ELSE PushAll(PushRow(b, Head(rs)), Tail(rs))

SingleChunkResult == _deserializer(CloseResidual(PushAll(FreshBuf, rows)), data_type)

\* C3: for valid rows the result under any budget equals the result of the
\* single-chunk run, and the run under the budget of the code is that
\* single-chunk run (it never flushes).
C3_ChunkingTransparent ==
    (Done /\ AllValid) =>
        /\ result = SingleChunkResult
        /\ (budget = FlushBudget => (ncalls = 1 /\ nconcat = 0))

\* C3 witness: a successful call on valid rows that went through two flushes
\* and a non-empty residual chunk.
C3_Witness ==
    /\ Done /\ AllValid /\ result.ok
    /\ Flushes >= 2
    /\ chunk_start < Len(rows)
    /\ budget # FlushBudget

Malformed == {j \in 1..Len(rows) : ~ValidRow(rows[j])}

\* C4: with exactly one malformed row the call ends with the decode error,
\* wherever the row stands and whatever the budget.
C4_OneMalformedRowFails ==
    (Done /\ Cardinality(Malformed) = 1) =>
        (~result.ok /\ result.err = ParseError /\ result.val = NoArray)

\* the decoding of one row taken alone
DecodedRow(r) == DecodeValue(to_borrowed_value(r).val, data_type)

\* C5: element k of the output is the decoding of input row k; with flushes
\* the output is the flushed chunks in flush order followed by the residual
\* chunk.
C5_OrderPreserved ==
    (Done /\ AllValid /\ result.ok) =>
        /\ Len(result.val.vals) = Len(rows)
        /\ \A k \in 1..Len(rows) : result.val.vals[k] = DecodedRow(rows[k])
        /\ (nconcat = 1 => result.val.vals = Flatten(arr))

\* C5 witness: a successful call on valid rows whose first two rows decode
\* differently and land in different chunks.
C5_Witness ==
    /\ Done /\ AllValid /\ result.ok
    /\ Len(rows) >= 2
    /\ DecodedRow(rows[1]) # DecodedRow(rows[2])
    /\ Flushes >= 1
    /\ Len(arr[1].vals) = 1

EmptyArray == [dt |-> data_type, vals |-> <<>>]

\* C6: on the empty input the loop body never runs, the buffer is closed to
\* exactly "[]", it is decoded once, and the array of length 0 of the
\* requested type is returned without concatenation.
C6_EmptyInput ==
    Len(rows) = 0 =>
        /\ pc \in {"loop", "final", "done"}
        /\ i = 0 /\ arr = <<>>
        /\ (pc = "final" => buf = <<"[", "]">>)
        /\ (pc = "done" => /\ result = Ok(EmptyArray)
                           /\ buf = <<"[", "]">>
                           /\ ncalls = 1
                           /\ nconcat = 0)

\* C6 witness: the call on the empty input has returned.
C6_Witness == Len(rows) = 0 /\ Done /\ result.ok

\* the rows the buffer holds, and their framing as one array literal
ChunkRows == SubSeq(rows, chunk_start + 1, i)

RECURSIVE JoinRows(_)
JoinRows(rs) ==
    IF rs = <<>> THEN <<>>
    ELSE IF Len(rs) = 1 THEN Head(rs)
    ELSE Head(rs) \o <<",">> \o JoinRows(Tail(rs))

Frame(rs) == <<"[">> \o JoinRows(rs) \o <<"]">>

\* a row longer than the budget
Oversized(r) == budget # FlushBudget /\ Len(r) > budget[2]

\* the buffer is closed around the rows since the last reset, the last of
\* which is the current row
TriggerInChunk ==
    /\ chunk_start < i
    /\ row = rows[i]
    /\ buf = Frame(ChunkRows)

\* the steps left before the call returns, at most: six per row still to
\* consume, plus the steps from the position to the loop head and out
Rank ==
    CASE pc = "done" -> 0
      [] pc = "final" -> 1
      [] pc = "loop" -> 2
      [] pc = "reset" -> 3
      [] pc = "push" -> 4
      [] pc = "decode" -> 5
      [] pc = "close" -> 6
      [] pc = "test" -> 7

StepsLeft == 6 * (Len(rows) - i) + Rank

\* some step of the call can be taken (the two decode steps are total: each
\* is possible whenever the call is at its position)
CanStep ==
    \/ ENABLED NextRow \/ ENABLED TestFlush \/ ENABLED FlushClose
    \/ pc = "decode"
    \/ ENABLED FlushPush \/ ENABLED FlushReset \/ ENABLED Finalize
    \/ pc = "final"

\* C7: the call cannot stall and ends with an array or the decode error:
\* until it has returned a step is always possible, and every step lowers
\* StepsLeft, which is never negative; the row index moves only in the loop
\* head and by one; a flush ends with the buffer "[" and returns to the loop
\* head; a row longer than the budget triggers a flush and is inside the
\* chunk that flush decodes.
C7_NoStall ==
    /\ [](pc = "done" \/ CanStep)
    /\ [](StepsLeft >= 0)
    /\ [][StepsLeft' < StepsLeft]_vars
    /\ [](pc = "done" => (result.ok \/ result.err = ParseError))
    /\ [][i' # i => (pc = "loop" /\ pc' = "test" /\ i' = i + 1)]_vars
    /\ [][(pc = "loop" /\ pc' = "test") => (i' = i + 1 /\ row' = rows[i'])]_vars
    /\ [][pc = "reset" => (buf' = FreshBuf /\ pc' = "loop")]_vars
    /\ [][(pc = "test" /\ Oversized(row)) => pc' = "close"]_vars
    /\ []((pc = "decode" /\ Oversized(row)) => TriggerInChunk)

\* C7 witness: a call with a row longer than the budget has returned an
\* array of MaxRows rows.
C7_Witness ==
    /\ Done /\ result.ok
    /\ Len(rows) = MaxRows
    /\ budget = Wide(1)
    /\ \E j \in 1..Len(rows) : Oversized(rows[j])

FramableRows ==
    \A j \in 1..Len(rows) : rows[j] # <<>> /\ rows[j][Len(rows[j])] # ","

\* C9: every buffer handed to the decoder (at a flush and at the end) starts
\* with "[", ends with "]", and holds the appended rows separated by single
\* commas; when no row is empty or ends in a comma, no comma stands before
\* the closing "]".
C9_FramedAsArrayLiteral ==
    pc \in {"decode", "final"} =>
        /\ Len(buf) >= 2
        /\ buf[1] = "["
        /\ buf[Len(buf)] = "]"
        /\ buf = Frame(ChunkRows)
        /\ (FramableRows => buf[Len(buf) - 1] # ",")

\* C9 witness: the second chunk is about to be decoded and holds two rows.
C9_Witness ==
    /\ pc = "decode"
    /\ FramableRows
    /\ chunk_start >= 1
    /\ Len(ChunkRows) >= 2

\* the comparison of line 40 on the numbers of the model
OverBudget == budget # FlushBudget /\ Len(buf) + Len(row) > budget[2]

\* C10: after the append the flush is taken exactly when buf.len() +
\* row.len() > budget; during the flush the buffer holds the row that
\* triggered it, and the flush ends with the buffer "[", so that row is not
\* in the next chunk.
C10_FlushExactlyWhenOverBudget ==
    /\ [][pc = "test" => /\ (pc' = "close" <=> OverBudget)
                         /\ (pc' = "loop" <=> ~OverBudget)]_vars
    /\ [][pc' = "close" => pc = "test"]_vars
    /\ [](pc = "decode" => TriggerInChunk)
    /\ [][pc = "reset" => (buf' = FreshBuf /\ chunk_start' = i)]_vars

\* C10 witness: a flush under a budget that let an earlier row of the same
\* chunk pass.
C10_Witness ==
    /\ pc = "decode"
    /\ budget \notin {Wide(0), FlushBudget}
    /\ Len(ChunkRows) >= 2

\* the larger of two numbers
Max(a, b) == IF a >= b THEN a ELSE b

\* the budget as a number; within the bounds a flush happens only under the
\* small budgets, whose top half is 0
BudgetLo == budget[2]

\* the row appended before the current one in the same chunk is non-empty,
\* or the current row is the first of its chunk
PrevRowNonEmpty == chunk_start < i - 1 => rows[i - 1] # <<>>

\* C11 as stated: at every flush the flushed buffer is at most the budget
\* plus the length of the triggering row long.  Budgets below 2, which
\* cannot hold even "[]", are left out: the code's budget is 2^32 - 2.
C11_LagAtMostOneRow ==
    (pc = "decode" /\ BudgetLo >= 2) => Len(buf) <= BudgetLo + Len(row)

\* C11 amended: at every flush the flushed buffer is at most
\* max(budget, 1) + Len(row) + 1 long, the separator comma of the row being
\* counted too; the bound budget + Len(row) holds when the budget is at
\* least 2 and the row before the triggering one in the chunk is not empty.
C11_LagAtMostOneRowAndComma ==
    pc = "decode" =>
        /\ budget # FlushBudget
        /\ Len(buf) <= Max(BudgetLo, 1) + Len(row) + 1
        /\ ((BudgetLo >= 2 /\ PrevRowNonEmpty) => Len(buf) <= BudgetLo + Len(row))

\* C11 witness: a flush whose buffer is exactly budget + Len(row) + 1 long,
\* after an empty row that left the buffer exactly at the budget.
C11_Witness ==
    /\ pc = "decode"
    /\ BudgetLo >= 2
    /\ chunk_start < i - 1
    /\ rows[i - 1] = <<>>
    /\ Len(buf) = BudgetLo + Len(row) + 1

\* C12: after every completed loop iteration the buffer is at most
\* max(1, budget - Len(row)) long, whatever the number of rows consumed, so
\* at the start of every iteration it is no longer than the budget (the
\* budget being at least 1, the length of "[").
C12_BufferBoundedByBudget ==
    pc = "loop" =>
        /\ (i >= 1 /\ budget # FlushBudget) =>
               Len(buf) <= Max(1, BudgetLo - Len(row))
        /\ (budget # FlushBudget /\ BudgetLo >= 1) => Len(buf) <= BudgetLo
        /\ budget = FlushBudget => WideGt(budget, Wide(Len(buf) + Len(row)))

\* C12 witness: all MaxRows rows are consumed, none flushed, and the buffer
\* is exactly at the bound.
C12_Witness ==
    /\ pc = "loop"
    /\ i = MaxRows
    /\ chunk_start = 0
    /\ budget # FlushBudget
    /\ Len(buf) = BudgetLo - Len(row)

\* C13: a failed chunk decode ends the call at once: the step that decodes
\* a chunk to an error goes to "done" with that one error as the result and
\* changes neither the row index, the buffer, the chunk list nor the count
\* of concatenations; no step follows "done"; the call that ended in an
\* error returned no array, never concatenated, and its last decoder call is
\* the one that failed.
C13_AbortOnDecodeError ==
    /\ [][(pc \in {"decode", "final"} /\ ~ret'.ok) =>
              /\ pc' = "done"
              /\ result' = Err(ParseError)
              /\ ret' = result'
              /\ <<i, row, buf, arr, nconcat>>' = <<i, row, buf, arr, nconcat>>]_vars
    /\ [][pc # "done"]_vars
    /\ []((Done /\ ~result.ok) =>
              /\ result = Err(ParseError)
              /\ result.val = NoArray
              /\ nconcat = 0
              /\ ncalls = Len(arr) + 1
              /\ ~to_borrowed_value(buf).ok)
    /\ [](~Done => result = Pending)

\* C13 witness: the call ended in an error after one chunk had been decoded
\* and with rows left in the input.
C13_Witness ==
    /\ Done /\ ~result.ok
    /\ Len(arr) >= 1
    /\ i < Len(rows)

\* C14: each chunk array has as many elements as rows were folded into its
\* buffer, after every iteration the rows consumed are those of the chunk
\* arrays plus those in the buffer, and the array returned has one element
\* per row.
C14_RowAccounting ==
    /\ (pc = "push" => Len(ret.val.vals) = Len(ChunkRows))
    /\ (pc = "loop" => i = Len(Flatten(arr)) + Len(ChunkRows))
    /\ ((Done /\ result.ok) => Len(result.val.vals) = Len(rows))

\* C14, on inputs of valid rows, where the code keeps it.
C14_ValidRowAccounting ==
    AllValid =>
        /\ (pc = "push" => Len(ret.val.vals) = Len(ChunkRows))
        /\ (pc = "loop" => i = Len(Flatten(arr)) + Len(ChunkRows))
        /\ ((Done /\ result.ok) => Len(result.val.vals) = Len(rows))

\* C15 as stated: at the assembly, with no flushed chunk the residual decode
\* result is returned and concatenate is not called; with k >= 1 flushed
\* chunks the decoder has then been called k + 1 times and concatenate is
\* called once on the k chunks followed by the residual chunk.
C15_ConcatenateIffFlushed ==
    [][pc = "final" =>
          IF arr = <<>>
          THEN result' = ret' /\ nconcat' = 0
          ELSE /\ ncalls' = Len(arr) + 1
               /\ nconcat' = 1
               /\ result' = concatenate(Append(arr, ret'.val))]_vars

\* C15 amended: as stated when the residual chunk decodes; when it does not,
\* concatenate is not called and the decode error is returned.  concatenate
\* is called nowhere else, and at the assembly the decoder has been called
\* once per flushed chunk.
C15_ConcatenateIffFlushedAndDecoded ==
    /\ [][pc = "final" =>
              /\ ncalls' = Len(arr) + 1
              /\ IF arr = <<>>
                 THEN result' = ret' /\ nconcat' = 0 /\ arr' = arr
                 ELSE IF ret'.ok
                      THEN /\ nconcat' = 1
                           /\ arr' = Append(arr, ret'.val)
                           /\ result' = concatenate(arr')
                      ELSE /\ nconcat' = 0
                           /\ arr' = arr
                           /\ result' = ret'
                           /\ result' = Err(ParseError)]_vars
    /\ [][nconcat' # nconcat => pc = "final"]_vars
    /\ [](pc = "final" => (ncalls = Len(arr) /\ nconcat = 0))
    /\ []((Done /\ nconcat = 0 /\ result.ok) => (ncalls = 1 /\ arr = <<>>))

\* C15 witness: a call with two flushed chunks has returned the
\* concatenation of three chunks after three decoder calls.
C15_Witness ==
    /\ Done /\ result.ok
    /\ nconcat = 1
    /\ ncalls = 3
    /\ Len(arr) = 3

\* C16: when the input is exhausted and rows were appended since the last
\* flush, the last character of the buffer, a comma, is replaced by "]",
\* which gives the array literal of exactly those rows; when no row was
\* appended since the last flush, or the input was empty, the buffer is "["
\* and becomes exactly "[]".
C16_ResidualFinalized ==
    /\ [][(pc = "loop" /\ pc' = "final") =>
              IF chunk_start < i
              THEN /\ buf[Len(buf)] = ","
                   /\ buf' = Append(SubSeq(buf, 1, Len(buf) - 1), "]")
                   /\ buf' = Frame(ChunkRows)
              ELSE /\ buf = <<"[">>
                   /\ buf' = <<"[", "]">>]_vars
    /\ [](pc = "final" => i = Len(rows))

\* C16 witness: the residual buffer is closed after a flush, with rows
\* appended since.
C16_Witness ==
    /\ pc = "final"
    /\ chunk_start >= 1
    /\ chunk_start < i

\* C17: from the step that hands the closed buffer to the decoder to the
\* step that stores the chunk array the buffer does not change, so the chunk
\* stored is the decoding of the buffer as it still stands; the buffer
\* becomes "[" only in the reset step that follows the push; and the first
\* append of the next chunk starts from "[".
C17_BufferHandover ==
    /\ [][(pc = "decode" \/ pc = "push") => (buf' = buf)]_vars
    /\ [][pc = "decode" => pc' \in {"push", "done"}]_vars
    /\ [][pc = "push" => (pc' = "reset" /\ arr' = Append(arr, ret.val))]_vars
    /\ [](pc = "push" => ret = _deserializer(buf, data_type))
    /\ [](pc = "reset" =>
              /\ arr # <<>>
              /\ Ok(arr[Len(arr)]) = _deserializer(buf, data_type))
    /\ [][pc = "reset" => (buf' = <<"[">> /\ pc' = "loop")]_vars
    /\ [][(buf' = <<"[">> /\ buf' # buf) => pc = "reset"]_vars
    /\ [][(pc = "loop" /\ pc' = "test" /\ arr # <<>> /\ chunk_start = i) =>
              (buf = <<"[">> /\ buf' = <<"[">> \o row' \o <<",">>)]_vars

\* C17 witness: the second chunk has been stored and the buffer, still
\* holding its text, is about to be reset.
C17_Witness ==
    /\ pc = "reset"
    /\ Len(arr) = 2
    /\ Len(buf) >= 3

\* C18: every chunk array, flushed or residual, has the data type the caller
\* supplied, so the arrays concatenated are of one type and concatenate
\* returns neither of its errors.
C18_OneDataType ==
    /\ \A j \in 1..Len(arr) : arr[j].dt = data_type
    /\ (ret.ok => ret.val.dt = data_type)
    /\ result.err \notin {MismatchError, EmptyError}
    /\ (result.ok => result.val.dt = data_type)

\* C18 witness: three chunks of type List have been concatenated.
C18_Witness ==
    /\ Done /\ result.ok
    /\ data_type = "List"
    /\ nconcat = 1
    /\ Len(arr) = 3

\* the chunking recomputed from the rows and the budget alone: the length of
\* the buffer at the loop head after j rows, and whether row j flushes
Exceeds(n) == budget # FlushBudget /\ n > budget[2]

RECURSIVE LenAtLoop(_)
LenAtLoop(j) ==
    IF j = 0 THEN 1
    ELSE LET l == LenAtLoop(j - 1) + Len(rows[j]) + 1
         IN  IF Exceeds(l + Len(rows[j])) THEN 1 ELSE l

Triggers(j) == j >= 1 /\ Exceeds(LenAtLoop(j - 1) + 2 * Len(rows[j]) + 1)

\* C19: every chunk flushed in the loop holds at least one row, the last of
\* which is the row that triggered the flush; the residual chunk holds no
\* row exactly when the input was empty or its last row triggered a flush,
\* and its buffer is then "[]".  On valid rows the same holds of the chunk
\* arrays: a flushed one is never empty.
C19_OnlyResidualMayBeEmpty ==
    /\ pc = "decode" =>
           /\ Len(ChunkRows) >= 1
           /\ ChunkRows[Len(ChunkRows)] = row
           /\ Triggers(i)
    /\ pc = "final" =>
           /\ ChunkRows = <<>> <=> (Len(rows) = 0 \/ Triggers(Len(rows)))
           /\ ChunkRows = <<>> => buf = <<"[", "]">>
    /\ (AllValid /\ pc = "push") => Len(ret.val.vals) >= 1
    /\ (AllValid /\ Done /\ nconcat = 1) =>
           /\ \A j \in 1..(Len(arr) - 1) : Len(arr[j].vals) >= 1
           /\ Len(arr[Len(arr)].vals) = 0 <=> Triggers(Len(rows))

\* C19 witness: the residual chunk is empty because the last of MaxRows
\* valid rows triggered a flush, after an earlier row that did not.
C19_Witness ==
    /\ Done /\ AllValid /\ result.ok
    /\ Len(rows) = MaxRows
    /\ Triggers(Len(rows))
    /\ ~Triggers(Len(rows) - 1)
    /\ Len(arr[Len(arr)].vals) = 0

\* line 21: String::with_capacity(std::u32::MAX as usize)
BufCapacity == U32_MAX

\* a number of halves plus one, and doubled without loss of the top bit
WideSucc(a) == IF a[2] + 1 = Half THEN <<a[1] + 1, 0>> ELSE <<a[1], a[2] + 1>>

WideDouble(a) == <<a[1] * 2 + ((a[2] * 2) \div Half), (a[2] * 2) % Half>>

\* C20: the budget (u32::MAX << 1), shifted in 32 bits before it is widened,
\* is 2^32 - 2 = 65535 * 2^16 + 65534: one less than the buffer capacity
\* u32::MAX, and not twice it; a call under it, within the bounds, never
\* flushes.
C20_BudgetWraps ==
    /\ FlushBudget = <<65535, 65534>>
    /\ WideSucc(FlushBudget) = BufCapacity
    /\ FlushBudget # WideDouble(BufCapacity)
    /\ WideGt(WideDouble(BufCapacity), FlushBudget)
    /\ budget = FlushBudget =>
           /\ budget[1] < Half /\ budget[2] < Half
           /\ pc \notin {"close", "decode", "push", "reset"}
           /\ (Done => nconcat = 0)

\* C20 witness: a call on MaxRows rows under the budget of the code has
\* returned.
C20_Witness ==
    /\ Done /\ result.ok
    /\ budget = FlushBudget
    /\ Len(rows) = MaxRows

====
